---------------------------- MODULE Spec2Model ----------------------------
(***************************************************************************)
(* compile_shader.py: walk the directory "shader", and run glslangValidator *)
(* on every entry os.walk lists as a file whose name ends in one of six     *)
(* shader suffixes.                                                         *)
(*                                                                          *)
(* Text is modelled as sequences of one-character strings, so that          *)
(* endswith, os.path.join and the "+" of line 23 are computed on the        *)
(* characters.  Bytes are sequences of 0..255 and bytes.decode() is the     *)
(* strict UTF-8 decoder.  A printed line is the tuple of the four pieces    *)
(* of its f-string.                                                         *)
(***************************************************************************)
EXTENDS Naturals, Sequences, FiniteSets, TLC

(***************************************************************************)
(* Bounds of the model.                                                     *)
(***************************************************************************)
\* how many leaf entries (the directories above them come with them) a tree holds
MaxLeaves == 3
\* how many times the program is run over the same tree
MaxRuns == 2

(***************************************************************************)
(* Literals of the program.                                                 *)
(***************************************************************************)
\* line 27: shader_directory = "shader"
shader_directory == <<"s", "h", "a", "d", "e", "r">>

\* line 23: the literal ".spv"
SpvSuffix == <<".", "s", "p", "v">>

\* line 21: the tuple given to endswith
ShaderSuffixes ==
    { <<".", "v", "e", "r", "t">>, <<".", "f", "r", "a", "g">>,
      <<".", "c", "o", "m", "p">>, <<".", "g", "e", "o", "m">>,
      <<".", "t", "e", "s", "c">>, <<".", "t", "e", "s", "e">> }

(***************************************************************************)
(* Pure functions.                                                          *)
(***************************************************************************)
\* str.endswith(suffix)
EndsWithOne(s, suffix) ==
    /\ Len(suffix) <= Len(s)
    /\ SubSeq(s, Len(s) - Len(suffix) + 1, Len(s)) = suffix

\* A plausible slip: "suffix in s" instead of s.endswith(suffix).
ContainsAny(s, suffixes) ==
    \E suffix \in suffixes :
        \E i \in 1..Len(s) :
            /\ i + Len(suffix) - 1 <= Len(s)
            /\ SubSeq(s, i, i + Len(suffix) - 1) = suffix

\* str.endswith(tuple): true when s ends with any member
endswith(s, suffixes) == \E suffix \in suffixes : EndsWithOne(s, suffix)

\* os.path.join(root, file), posix, for a file name that holds no "/"
join(root, file) ==
    IF root = <<>> THEN file
    ELSE IF root[Len(root)] = "/" THEN root \o file
    ELSE root \o <<"/">> \o file

\* A plausible slip: the suffix replaces the extension, as with
\* os.path.splitext(shader_path)[0] + ".spv".
OutputPathReplacingExt(shader_path) ==
    LET dots == { i \in 1..Len(shader_path) :
                    /\ shader_path[i] = "."
                    /\ \A j \in i..Len(shader_path) : shader_path[j] # "/" }
        last == CHOOSE i \in dots : \A j \in dots : j <= i
    IN  IF dots = {} THEN shader_path \o SpvSuffix
        ELSE SubSeq(shader_path, 1, last - 1) \o SpvSuffix

\* line 23: output_path = shader_path + ".spv"
OutputPath(shader_path) == shader_path \o SpvSuffix

\* line 8: the argument list given to subprocess.run
Argv(shader_path, output_path) ==
    << "glslangValidator", "-V", shader_path, "-o", output_path >>

\* line 13: f"Compiled {shader_path} -> {output_path}"
CompiledLine(shader_path, output_path) ==
    << "Compiled ", shader_path, " -> ", output_path >>

\* line 15: f"Failed to compile {shader_path}: {text}"
FailedLine(shader_path, text) ==
    << "Failed to compile ", shader_path, ": ", text >>

(***************************************************************************)
(* bytes.decode(): UTF-8, errors="strict".                                  *)
(***************************************************************************)
IsCont(b) == b \in 128..191

\* The length of the well-formed UTF-8 sequence that starts at b[i]; 0 when
\* there is none (UnicodeDecodeError).
Utf8SeqLen(b, i) ==
    LET n == Len(b)
        b1 == b[i]
        At(k) == b[i + k]
    IN  IF b1 < 128 THEN 1
        ELSE IF b1 \in 194..223
             THEN IF i + 1 <= n /\ IsCont(At(1)) THEN 2 ELSE 0
        ELSE IF b1 \in 224..239
             THEN IF /\ i + 2 <= n
                     /\ IsCont(At(1)) /\ IsCont(At(2))
                     /\ (b1 = 224 => At(1) >= 160)
                     /\ (b1 = 237 => At(1) <= 159)
                  THEN 3 ELSE 0
        ELSE IF b1 \in 240..244
             THEN IF /\ i + 3 <= n
                     /\ IsCont(At(1)) /\ IsCont(At(2)) /\ IsCont(At(3))
                     /\ (b1 = 240 => At(1) >= 144)
                     /\ (b1 = 244 => At(1) <= 143)
                  THEN 4 ELSE 0
        ELSE 0

\* The code point of the well-formed sequence of length k at b[i].
Utf8CodePoint(b, i, k) ==
    IF k = 1 THEN b[i]
    ELSE IF k = 2 THEN (b[i] - 192) * 64 + (b[i + 1] - 128)
    ELSE IF k = 3 THEN (b[i] - 224) * 4096 + (b[i + 1] - 128) * 64 + (b[i + 2] - 128)
    ELSE (b[i] - 240) * 262144 + (b[i + 1] - 128) * 4096
             + (b[i + 2] - 128) * 64 + (b[i + 3] - 128)

\* chr(cp) as a one-character string; the characters the model's stderr
\* texts hold are spelled out, the others are named by their number.
Chr(cp) ==
    IF cp = 69 THEN "E"
    ELSE IF cp = 82 THEN "R"
    ELSE IF cp = 10 THEN "\n"
    ELSE "U+" \o ToString(cp)

RECURSIVE DecodeFrom(_, _)
DecodeFrom(b, i) ==
    IF i > Len(b) THEN [ok |-> TRUE, text |-> <<>>]
    ELSE LET k == Utf8SeqLen(b, i) IN
         IF k = 0 THEN [ok |-> FALSE, text |-> <<>>]
         ELSE LET rest == DecodeFrom(b, i + k) IN
              IF rest.ok
              THEN [ok |-> TRUE, text |-> <<Chr(Utf8CodePoint(b, i, k))>> \o rest.text]
              ELSE rest

\* line 15: e.stderr.decode(); ok = FALSE stands for UnicodeDecodeError
decode(b) == DecodeFrom(b, 1)

(***************************************************************************)
(* The file system under the current directory.  An entry is a name in a    *)
(* directory together with what a scandir of that directory finds there.    *)
(***************************************************************************)
Kinds == {"file", "dir", "linkfile", "linkdir", "broken", "fifo"}

Entry(d, n, k) == [dir |-> d, name |-> n, kind |-> k]

PathOf(e) == join(e.dir, e.name)

DirA == join(shader_directory, <<"a">>)
DirAB == join(DirA, <<"b">>)

\* the directories shader/a and shader/a/b
Skeleton ==
    { Entry(shader_directory, <<"a">>, "dir"), Entry(DirA, <<"b">>, "dir") }

\* the entries a tree is drawn from: regular files with and without a
\* shader suffix, a name that is a suffix and nothing more, a stale output,
\* and names with a shader suffix that are no regular files
Leaves ==
    { Entry(DirA, <<"x", ".", "v", "e", "r", "t">>, "file"),
      Entry(DirAB, <<"y", ".", "f", "r", "a", "g">>, "file"),
      Entry(DirAB, <<"z", ".", "t", "x", "t">>, "file"),
      Entry(DirA, <<"x", ".", "v", "e", "r", "t", ".", "s", "p", "v">>, "file"),
      Entry(shader_directory, <<".", "g", "e", "o", "m">>, "file") }
    \cup { Entry(shader_directory, <<"c", ".", "c", "o", "m", "p">>, k) :
             k \in {"linkfile", "fifo", "broken"} }
    \cup { Entry(shader_directory, <<"d", ".", "t", "e", "s", "e">>, k) :
             k \in {"dir", "linkdir"} }

\* a directory holds a name once
UniqueNames(L) == \A e1, e2 \in L : PathOf(e1) = PathOf(e2) => e1 = e2

IsPrefix(p, q) == Len(p) <= Len(q) /\ SubSeq(q, 1, Len(p)) = p

\* the directories of the skeleton that lie on the way to an entry of L
Above(L) ==
    { d \in Skeleton : \E e \in L : IsPrefix(PathOf(d), e.dir) }

Trees ==
    { L \cup Above(L) :
        L \in { S \in SUBSET Leaves : Cardinality(S) <= MaxLeaves /\ UniqueNames(S) } }

\* what the external compiler is to the process that spawns it
ExeStates == {"ok", "missing", "noperm"}

\* what the child wrote to its standard error: b"ERR", and a byte that is
\* no UTF-8
StderrTexts == { <<69, 82, 82>>, <<255>> }

\* how a child that was spawned can end
Outcomes ==
    { [rc |-> 0, stderr |-> <<>>] } \cup { [rc |-> 1, stderr |-> t] : t \in StderrTexts }

\* the file a successful compilation leaves at output_path
DirName(p) ==
    LET slashes == { i \in 1..Len(p) : p[i] = "/" }
        last == CHOOSE i \in slashes : \A j \in slashes : j <= i
    IN  IF slashes = {} THEN <<>> ELSE SubSeq(p, 1, last - 1)

BaseName(p) ==
    LET slashes == { i \in 1..Len(p) : p[i] = "/" }
        last == CHOOSE i \in slashes : \A j \in slashes : j <= i
    IN  IF slashes = {} THEN p ELSE SubSeq(p, last + 1, Len(p))

Written(tree, output_path) ==
    IF \E e \in tree : PathOf(e) = output_path
    THEN tree
    ELSE tree \cup { Entry(DirName(output_path), BaseName(output_path), "file") }

(***************************************************************************)
(* os.walk(top), top down, followlinks=False, onerror=None.                 *)
(***************************************************************************)
\* A plausible slip: is_dir(follow_symlinks=False), which sends a link to
\* a directory to the files.
IsDirNoFollow(kind) == kind = "dir"

\* entry.is_dir(): a directory, or a link to one
is_dir(kind) == kind \in {"dir", "linkdir"}

\* os.path.islink
islink(kind) == kind \in {"linkfile", "linkdir", "broken"}

\* the orders a scandir can list a set of names in
Orders(S) ==
    { s \in [1..Cardinality(S) -> S] : \A i, j \in 1..Cardinality(S) : s[i] = s[j] => i = j }

\* the names of the entries of directory top that walk yields as files
NonDirs(tree, top) == { e.name : e \in { x \in tree : x.dir = top /\ ~is_dir(x.kind) } }

\* the names of the entries of directory top that walk yields as dirs
SubDirs(tree, top) == { e.name : e \in { x \in tree : x.dir = top /\ is_dir(x.kind) } }

\* the dirs that walk descends into: those that are no links
Descend(tree, top, dirs) ==
    SelectSeq(dirs, LAMBDA n : \E e \in tree : e.dir = top /\ e.name = n /\ ~islink(e.kind))

(***************************************************************************)
(* The state of one run of the program, and of the file system it runs on.  *)
(***************************************************************************)
VARIABLES
    fs,           \* the entries under the current directory
    exists,       \* whether the directory "shader" exists
    exe,          \* whether glslangValidator can be spawned
    run,          \* which run of the program this is
    pc,           \* where the program is
    stack,        \* os.walk: the directories still to scan
    root,         \* line 19: the directory walk yielded last
    files,        \* line 20: the files of root the loop has not reached
    shader_path,  \* line 22
    output_path,  \* line 23
    children,     \* the argument lists of the child processes that run
    stdout,       \* the lines printed in this run
    exc,          \* the exception that ended this run, "" when none did
    passed,       \* history: the calls of compile_shader in this run
    calls,        \* history: the children spawned in this run
    exits,        \* history: how the children of this run ended
    fs0,          \* history: fs when this run started
    prev          \* history: the source paths the earlier runs spawned a child for

vars == << fs, exists, exe, run, pc, stack, root, files, shader_path, output_path,
           children, stdout, exc, passed, calls, exits, fs0, prev >>

\* everything a run owns, as a fresh process finds it
Fresh ==
    /\ pc' = "main"
    /\ stack' = <<>>
    /\ root' = <<>>
    /\ files' = <<>>
    /\ shader_path' = <<>>
    /\ output_path' = <<>>
    /\ children' = {}
    /\ stdout' = <<>>
    /\ exc' = ""
    /\ passed' = <<>>
    /\ calls' = <<>>
    /\ exits' = <<>>

Init ==
    /\ exists \in BOOLEAN
    /\ fs \in (IF exists THEN Trees ELSE {{}})
    /\ exe \in ExeStates
    /\ run = 1
    /\ pc = "main"
    /\ stack = <<>>
    /\ root = <<>>
    /\ files = <<>>
    /\ shader_path = <<>>
    /\ output_path = <<>>
    /\ children = {}
    /\ stdout = <<>>
    /\ exc = ""
    /\ passed = <<>>
    /\ calls = <<>>
    /\ exits = <<>>
    /\ fs0 = fs
    /\ prev = <<>>

\* lines 26-28, 19: main calls compile_shaders_in_directory, which starts the walk
Main ==
    /\ pc = "main"
    /\ pc' = "walk"
    /\ stack' = << shader_directory >>
    /\ UNCHANGED << fs, exists, exe, run, root, files, shader_path, output_path,
                    children, stdout, exc, passed, calls, exits, fs0, prev >>

\* whether scandir(top) raises OSError, which walk swallows (onerror=None)
ScandirFails(top) == top = shader_directory /\ ~exists

\* line 19: the for statement asks walk for its next triple.  walk scans the
\* next directory; a directory it cannot scan is passed over in silence.
WalkNext ==
    /\ pc = "walk"
    /\ stack # <<>>
    /\ LET top == Head(stack) IN
       IF ScandirFails(top)
       THEN /\ stack' = Tail(stack)
            /\ UNCHANGED << pc, root, files >>
       ELSE \E nondirs \in Orders(NonDirs(fs, top)), dirs \in Orders(SubDirs(fs, top)) :
               /\ root' = top
               /\ files' = nondirs
               /\ stack' = [i \in 1..Len(Descend(fs, top, dirs)) |->
                               join(top, Descend(fs, top, dirs)[i])] \o Tail(stack)
               /\ pc' = "files"
    /\ UNCHANGED << fs, exists, exe, run, shader_path, output_path,
                    children, stdout, exc, passed, calls, exits, fs0, prev >>

\* line 19: walk is exhausted; compile_shaders_in_directory returns, and so does main
WalkEnd ==
    /\ pc = "walk"
    /\ stack = <<>>
    /\ pc' = "done"
    /\ UNCHANGED << fs, exists, exe, run, stack, root, files, shader_path, output_path,
                    children, stdout, exc, passed, calls, exits, fs0, prev >>

\* lines 20-24: one turn of the inner loop, up to the call of compile_shader
ForFile ==
    /\ pc = "files"
    /\ files # <<>>
    /\ LET file == Head(files) IN
       IF endswith(file, ShaderSuffixes)
       THEN /\ shader_path' = join(root, file)
            /\ output_path' = OutputPath(join(root, file))
            /\ passed' = Append(passed, [shader_path |-> join(root, file),
                                         output_path |-> OutputPath(join(root, file))])
            /\ pc' = "run"
       ELSE UNCHANGED << shader_path, output_path, passed, pc >>
    /\ files' = Tail(files)
    /\ UNCHANGED << fs, exists, exe, run, stack, root,
                    children, stdout, exc, calls, exits, fs0, prev >>

\* line 20: the files of root are exhausted
ForEnd ==
    /\ pc = "files"
    /\ files = <<>>
    /\ pc' = "walk"
    /\ UNCHANGED << fs, exists, exe, run, stack, root, files, shader_path, output_path,
                    children, stdout, exc, passed, calls, exits, fs0, prev >>

\* A plausible slip: subprocess.Popen, which does not wait for the child.
NotBlocking == "files"

\* lines 7-12: subprocess.run returns only when the child has ended
Blocking == "wait"

\* lines 6-12: subprocess.run spawns the child.  An executable that is not
\* there, or may not be executed, makes it raise FileNotFoundError or
\* PermissionError, which the except clause of line 14 does not name.
Spawn ==
    /\ pc = "run"
    /\ IF exe = "ok"
       THEN /\ children' = children \cup { Argv(shader_path, output_path) }
            /\ calls' = Append(calls, Argv(shader_path, output_path))
            /\ pc' = Blocking
            /\ UNCHANGED exc
       ELSE /\ pc' = "crashed"
            /\ exc' = (IF exe = "missing" THEN "FileNotFoundError" ELSE "PermissionError")
            /\ UNCHANGED << children, calls >>
    /\ UNCHANGED << fs, exists, exe, run, stack, root, files, shader_path, output_path,
                    stdout, passed, exits, fs0, prev >>

\* A plausible slip: the handler calls the compiler again.
RetryAfterFailure == "run"

\* lines 14-15: after the handler compile_shader returns to the loop
AfterFailure == "files"

\* lines 7-15: the child ends and subprocess.run returns, or raises
\* CalledProcessError for an exit status that is not 0 (check=True); the
\* handler decodes the captured standard error and prints it.
ChildExit ==
    /\ pc = "wait"
    /\ children # {}
    /\ \E o \in Outcomes :
         /\ exits' = Append(exits, [shader_path |-> shader_path, rc |-> o.rc,
                                    stderr |-> o.stderr])
         /\ children' = children \ { Argv(shader_path, output_path) }
         /\ IF o.rc = 0
            THEN /\ fs' = Written(fs, output_path)
                 /\ stdout' = Append(stdout, CompiledLine(shader_path, output_path))
                 /\ pc' = "files"
                 /\ UNCHANGED exc
            ELSE /\ fs' = fs
                 /\ IF decode(o.stderr).ok
                    THEN /\ stdout' = Append(stdout,
                                         FailedLine(shader_path, decode(o.stderr).text))
                         /\ pc' = AfterFailure
                         /\ UNCHANGED exc
                    ELSE /\ pc' = "crashed"
                         /\ exc' = "UnicodeDecodeError"
                         /\ UNCHANGED stdout
    /\ UNCHANGED << exists, exe, run, stack, root, files, shader_path, output_path,
                    passed, calls, fs0, prev >>

\* the source paths of the children spawned in this run
Invoked == { calls[i][3] : i \in 1..Len(calls) }

\* the program is run again over the tree the last run left
Rerun ==
    /\ pc \in {"done", "crashed"}
    /\ run < MaxRuns
    /\ run' = run + 1
    /\ prev' = Append(prev, Invoked)
    /\ fs0' = fs
    /\ Fresh
    /\ UNCHANGED << fs, exists, exe >>

\* the steps of one run
Step ==
    \/ Main
    \/ WalkNext
    \/ WalkEnd
    \/ ForFile
    \/ ForEnd
    \/ Spawn
    \/ ChildExit

Next ==
    \/ Step
    \/ Rerun

Spec == Init /\ [][Next]_vars

(***************************************************************************)
(* What the claims speak of.                                                *)
(***************************************************************************)
\* the run is over: main returned, or an exception left it
RunEnded == pc \in {"done", "crashed"}

\* the paths of the entries of a tree that are no directories and whose
\* name ends in one of the six suffixes
Recognized(tree) ==
    { PathOf(e) : e \in { x \in tree : /\ x.kind \notin {"dir", "linkdir"}
                                       /\ \E suffix \in ShaderSuffixes :
                                            /\ Len(x.name) >= Len(suffix)
                                            /\ SubSeq(x.name, Len(x.name) - Len(suffix) + 1,
                                                      Len(x.name)) = suffix } }

\* the source paths compile_shader was called with in this run
PassedSet == { passed[i].shader_path : i \in 1..Len(passed) }

\* the lines of this run's output that name source path p
LinesOf(p) == { i \in 1..Len(stdout) : stdout[i][2] = p }

\* the kind of the entry that path p named when the run started
KindsAt(p) == { e.kind : e \in { x \in fs0 : PathOf(x) = p } }

(***************************************************************************)
(* C1: over a whole run the set of files passed to compile_shader is        *)
(* exactly the set of files of the tree whose name ends in one of the six   *)
(* suffixes: none of them is skipped, and no other file is passed.          *)
(* The code: a run that an exception ends passes the files it reached.      *)
(***************************************************************************)
C1_PassedEqualsRecognized ==
    /\ PassedSet \subseteq Recognized(fs0)
    /\ RunEnded => PassedSet = Recognized(fs0)

(***************************************************************************)
(* C2: a compiler that exits non-zero for some files never stops the run:   *)
(* the run ends normally, every matched file was passed and reported, and   *)
(* every failing file is reported as a failure with the captured            *)
(* standard-error text.                                                     *)
(* The code: standard error that is no UTF-8 makes the handler raise.       *)
(***************************************************************************)
C2_FailureNeverStopsTheRun ==
    exe = "ok" =>
        /\ pc # "crashed"
        /\ pc = "done" =>
             /\ PassedSet = Recognized(fs0)
             /\ \A p \in Recognized(fs0) : LinesOf(p) # {}
             /\ \A j \in 1..Len(exits) :
                  exits[j].rc # 0 =>
                      \E i \in 1..Len(stdout) :
                          /\ stdout[i][1] = "Failed to compile "
                          /\ stdout[i][2] = exits[j].shader_path
                          /\ stdout[i][4] = decode(exits[j].stderr).text

(***************************************************************************)
(* C3: every kind of invocation error is contained at the file it happens   *)
(* on: an executable that is missing or may not be executed gives a printed *)
(* diagnostic for that file, and the run goes on to the other files.        *)
(* The code: the handler names CalledProcessError alone.                    *)
(***************************************************************************)
C3_SpawnErrorsContained ==
    exe # "ok" =>
        /\ exc \notin {"FileNotFoundError", "PermissionError"}
        /\ pc = "done" =>
             /\ PassedSet = Recognized(fs0)
             /\ \A p \in PassedSet :
                  \E i \in LinesOf(p) : stdout[i][1] = "Failed to compile "

(***************************************************************************)
(* C4: a run prints exactly one report for every matched file, a success    *)
(* report if and only if the child's exit status is 0 and a failure report  *)
(* if and only if it is not.                                                *)
(* The code: the file an exception is raised on, and the files after it,    *)
(* get no report.                                                           *)
(***************************************************************************)
C4_OneReportPerMatchedFile ==
    RunEnded =>
        /\ \A p \in Recognized(fs0) : Cardinality(LinesOf(p)) = 1
        /\ \A j \in 1..Len(exits) :
             \E i \in LinesOf(exits[j].shader_path) :
                 /\ exits[j].rc = 0 <=> stdout[i][1] = "Compiled "
                 /\ exits[j].rc # 0 <=> stdout[i][1] = "Failed to compile "

(***************************************************************************)
(* C5: the compiler is spawned with the arguments glslangValidator, -V, p,  *)
(* -o, p + ".spv", where p is the path of the walked entry, unaltered.      *)
(***************************************************************************)
C5_ArgumentList ==
    /\ Len(calls) <= Len(passed)
    /\ \A i \in 1..Len(calls) :
         LET p == passed[i].shader_path IN
         /\ p \in Recognized(fs0)
         /\ calls[i] = << "glslangValidator", "-V", p, "-o", p \o <<".", "s", "p", "v">> >>

\* a run that spawned the compiler for a file two directories down
C5_Witness ==
    /\ pc = "done"
    /\ \E i \in 1..Len(calls) : calls[i][3] = join(DirAB, <<"y", ".", "f", "r", "a", "g">>)

(***************************************************************************)
(* C6: when the root directory is missing, is empty, or holds no file with  *)
(* a recognized suffix, the run spawns nothing, prints nothing, and         *)
(* completes with no error: no exception, and no state short of the end     *)
(* where it stops.                                                          *)
(***************************************************************************)
C6_NothingToCompile ==
    (~exists \/ Recognized(fs0) = {}) =>
        /\ passed = <<>>
        /\ calls = <<>>
        /\ children = {}
        /\ stdout = <<>>
        /\ pc # "crashed"
        /\ pc = "done" \/ ENABLED Step

\* a finished run over a tree that holds files, none of them a shader source
C6_Witness ==
    /\ pc = "done"
    /\ exists
    /\ Recognized(fs0) = {}
    /\ \E e \in fs0 : e.name = <<"x", ".", "v", "e", "r", "t", ".", "s", "p", "v">>
    /\ \E e \in fs0 : e.name = <<"z", ".", "t", "x", "t">>
    /\ stdout = <<>>

(***************************************************************************)
(* C7: the compilations are strictly sequential: at most one child runs,    *)
(* and while a child runs, and when the next is about to be spawned, every  *)
(* child spawned before has ended and has had its report printed.           *)
(***************************************************************************)
C7_OneChildAtATime ==
    /\ Cardinality(children) <= 1
    /\ children # {} =>
         /\ Len(exits) = Len(calls) - 1
         /\ Len(stdout) = Len(calls) - 1
    /\ pc = "run" =>
         /\ children = {}
         /\ Len(exits) = Len(calls)
         /\ Len(stdout) = Len(calls)

\* a third child runs, after two that ended and were reported
C7_Witness ==
    /\ children # {}
    /\ Len(calls) = 3
    /\ Len(stdout) = 2

(***************************************************************************)
(* C8: within a run the compiler is spawned at most once for a source       *)
(* path, whether the first attempt succeeded or failed.                     *)
(***************************************************************************)
C8_NoSecondAttempt ==
    \A i, j \in 1..Len(calls) : calls[i][3] = calls[j][3] => i = j

\* a finished run in which a compilation failed and one succeeded
C8_Witness ==
    /\ pc = "done"
    /\ \E j \in 1..Len(exits) : exits[j].rc # 0
    /\ \E j \in 1..Len(exits) : exits[j].rc = 0
    /\ Len(calls) = Len(exits)

(***************************************************************************)
(* C9, as the spec states it: every path passed to compile_shader names a   *)
(* regular file; a link, a broken link or a special file is never passed.   *)
(***************************************************************************)
C9_OnlyRegularFiles ==
    \A i \in 1..Len(passed) : KindsAt(passed[i].shader_path) = {"file"}

(***************************************************************************)
(* C9, amended: every path passed to compile_shader names an entry that     *)
(* was in its directory when the run started and that is no directory and   *)
(* no link to a directory.                                                  *)
(***************************************************************************)
C9_NeverADirectory ==
    \A i \in 1..Len(passed) :
        /\ KindsAt(passed[i].shader_path) # {}
        /\ KindsAt(passed[i].shader_path) \cap {"dir", "linkdir"} = {}

\* a broken link with a shader suffix was passed, in a tree that also holds
\* a link to a directory with a shader suffix, which was not
C9_Witness ==
    /\ pc = "done"
    /\ \E i \in 1..Len(passed) : KindsAt(passed[i].shader_path) = {"broken"}
    /\ \E e \in fs0 : e.kind = "linkdir"

(***************************************************************************)
(* C10: outputs are never fed back as sources: no output path ends in a     *)
(* recognized suffix, distinct sources have distinct outputs, no output of  *)
(* this or of an earlier run is passed to compile_shader, and a second run  *)
(* spawns the compiler for the same set of source paths as the first.       *)
(* The code: a run that an exception ends spawns it for the files it        *)
(* reached, and the next run need not end at the same file.                 *)
(***************************************************************************)
C10_OutputsNeverFedBack ==
    /\ \A i \in 1..Len(passed) :
         ~(\E suffix \in ShaderSuffixes :
               LET o == passed[i].output_path IN
               /\ Len(o) >= Len(suffix)
               /\ SubSeq(o, Len(o) - Len(suffix) + 1, Len(o)) = suffix)
    /\ \A i, j \in 1..Len(passed) :
         passed[i].shader_path # passed[j].shader_path
             => passed[i].output_path # passed[j].output_path
    /\ \A i, j \in 1..Len(passed) : passed[i].shader_path # passed[j].output_path
    /\ \A k \in 1..Len(prev) : \A q \in prev[k] :
         \A i \in 1..Len(passed) : passed[i].shader_path # q \o <<".", "s", "p", "v">>
    /\ (RunEnded /\ run > 1) => Invoked = prev[run - 1]

=============================================================================
